---------------------------- MODULE Spec2Model ----------------------------
(***************************************************************************)
(* Multimodal product search of playwithllm/store.                         *)
(*                                                                         *)
(* The model follows server/routes/product/MultimodalProcessor.js (the     *)
(* processor: searchProductEmbedding, ragSearch, ...) and the Express      *)
(* routes of routes/products.js (GET /search, POST /image-search).         *)
(*                                                                         *)
(* Strings are sequences of one-character strings, so that trim, split    *)
(* and the case-insensitive $regex match are computed and not assumed.     *)
(* Similarity scores are kept in tenths of a raw unit: a hit of the text   *)
(* field with raw score s carries 10*s, a hit of the image field, which    *)
(* the code multiplies by 0.9, carries 9*s.                                *)
(***************************************************************************)
EXTENDS Integers, Sequences, FiniteSets, TLC

VARIABLES
    catalog,          \* the Product collection of MongoDB, in natural order
    index,            \* the rows of the Milvus collection
    pc,               \* position of the request being served
    req,              \* the request being served
    exactResults,     \* exact branch of ragSearch: [st, val]
    semanticResults,  \* semantic branch of ragSearch: [st, val]
    merged,           \* values of combinedProductMap, in insertion order
    result,           \* what processor.ragSearch returned or threw
    calls,            \* the dependencies the request has called so far
    failed,           \* the dependency calls of the request that raised
    resp,             \* the HTTP response of the route
    tmpFiles,         \* the temporary image files that exist under /tmp
    client,           \* what the web client's imageSearchProducts returned
    collection,       \* state of the Milvus collection
    settled,          \* the branches of ragSearch in the order they settled
    rowIds,           \* the primary keys of the rows of index, row by row
    vectorIndexes,    \* the vector fields of the collection that are indexed
    unflushed,        \* how many of the last rows of index are not flushed
    clock,            \* Date.now() of the ingestion process
    ingest,           \* the ingestion runs: their positions and locals
    stored,           \* the last row an ingestion path reported as stored
    llm,              \* config.llm.defaultProvider and the expansion in hand
    models,           \* init() of a processor, its models, its last embedding
    images,           \* the files under storage.baseImagePath, the downloads
    requests,         \* the search requests that are served at the same time
    reset             \* the reset-and-migrate script: its position, its reset

vars == <<catalog, index, collection, pc, req, exactResults, semanticResults,
          merged, result, calls, failed, resp, tmpFiles, client, settled,
          rowIds, vectorIndexes, unflushed, clock, ingest, stored, llm,
          models, images, requests, reset>>

\* what the search requests leave alone
ingestVars == <<rowIds, vectorIndexes, unflushed, clock, ingest, stored,
               llm, models, images, requests, reset>>

-----------------------------------------------------------------------------
(* Bounds *)

MaxCatalog == 2      \* documents in the Product collection
MaxRows == 3         \* rows in the Milvus collection
MaxScore == 1        \* raw similarity scores are 0..MaxScore
MaxLimit == 2        \* limits passed to processor.ragSearch directly
MaxRouteRows == 1    \* rows in the Milvus collection behind the routes

(* Program constants *)

TextWeight == 10     \* text-field scores are kept as they are
ImageWeight == 9     \* image-field scores are multiplied by 0.9

IdOrder == <<"p1", "p2", "p3">>
Ids == {IdOrder[k] : k \in 1..Len(IdOrder)}   \* sourceId / productId values
Scores == 0..MaxScore
NoScore == -1                 \* _searchScore of a product that has none

-----------------------------------------------------------------------------
(* Strings *)

Empty == << >>
TV == <<"t", "v">>
PC == <<"p", "c">>
UpperTV == <<"T", "v">>

Min(a, b) == IF a < b THEN a ELSE b

\* String.prototype.toLowerCase, over the alphabet of the model
LowerChar(c) == IF c = "T" THEN "t" ELSE IF c = "V" THEN "v" ELSE c
Lower(s) == [i \in 1..Len(s) |-> LowerChar(s[i])]

RECURSIVE TrimStart(_)
TrimStart(s) ==
    IF s /= << >> /\ Head(s) = " " THEN TrimStart(Tail(s)) ELSE s

RECURSIVE TrimEnd(_)
TrimEnd(s) ==
    IF s /= << >> /\ s[Len(s)] = " "
    THEN TrimEnd(SubSeq(s, 1, Len(s) - 1)) ELSE s

\* String.prototype.trim
Trim(s) == TrimEnd(TrimStart(s))

\* text.includes(pat)
Contains(text, pat) ==
    \E i \in 1..(Len(text) + 1) :
        /\ i + Len(pat) - 1 <= Len(text)
        /\ SubSeq(text, i, i + Len(pat) - 1) = pat

\* { $regex: query, $options: "i" } on one field
RegexMatch(text, query) == Contains(Lower(text), Lower(query))

\* Array.prototype.slice(0, n) for n >= 0
Slice(s, n) == SubSeq(s, 1, Min(n, Len(s)))

-----------------------------------------------------------------------------
(* MongoDB: the Product collection *)

\* the name and description a document of the model can have
DocTexts == { [name |-> TV, description |-> Empty],
              [name |-> PC, description |-> TV] }

Catalogs ==
    UNION { { [i \in 1..n |-> [_id |-> i, sourceId |-> ids[i],
                               name |-> txt[i].name,
                               category |-> Empty,
                               description |-> txt[i].description]] :
                ids \in [1..n -> Ids], txt \in [1..n -> DocTexts] } :
            n \in 0..MaxCatalog }

\* Product.find({ $or: [name, category, description] }).limit(limit)
FindByKeyword(cat, query, limit) ==
    Slice(SelectSeq(cat, LAMBDA d : \/ RegexMatch(d.name, query)
                                    \/ RegexMatch(d.category, query)
                                    \/ RegexMatch(d.description, query)),
          limit)

\* Product.find({ sourceId: { $in: ids } })
FindBySourceIds(cat, ids) == SelectSeq(cat, LAMBDA d : d.sourceId \in ids)

-----------------------------------------------------------------------------
(* Milvus: the collection and its search *)

\* the two FloatVector fields of the collection
VectorFields == {"product_name_vector", "image_vector"}

\* no ingestion is running
NoIngest == [pc |-> "idle"]

\* no ingestion path has reported a row as stored
NoReport == [by |-> "none"]

\* one request at a time is served
NoRequests == << >>

\* the reset-and-migrate script is not run
NoReset == [pc |-> "none"]

\* baseImagePath does not exist yet and nothing has been downloaded
NoImages == [dir |-> FALSE, files |-> {}]

\* no embedding has been asked for
NoEmbedding == [fn |-> "none"]

\* a processor as its constructor leaves it: clipModel and embeddingModel
\* are null and init() has not been called
Constructed == [init |-> "constructed", clipModel |-> FALSE,
                embeddingModel |-> FALSE, last |-> NoEmbedding]

\* the LLM configuration as constructed: defaultProvider "ollama", and no
\* call of expandTextWithVLLM in hand
NoExpansion == [defaultProvider |-> "ollama", at |-> "idle"]

\* a row carries the productId of its metadata; a search that misses a row
\* (the index is approximate) answers as a collection without that row does
IdRank(id) == CHOOSE k \in 1..Len(IdOrder) : IdOrder[k] = id

\* products are told apart by equality only and the catalog ranges over every
\* assignment of ids, so the rows name the products in order of appearance
FirstAppearanceOrder(rows) ==
    \A i \in 1..Len(rows) :
        \A k \in 1..(IdRank(rows[i].productId) - 1) :
            \E j \in 1..(i - 1) : rows[j].productId = IdOrder[k]

Indexes ==
    UNION { { rows \in [1..n -> [productId : Ids]] :
                FirstAppearanceOrder(rows) } : n \in 0..MaxRows }

\* insert hit x into s, which is sorted by descending score, behind the
\* hits that score at least as much
RECURSIVE InsertDesc(_, _)
InsertDesc(x, s) ==
    IF s = << >> THEN <<x>>
    ELSE IF Head(s).score >= x.score THEN <<Head(s)>> \o InsertDesc(x, Tail(s))
    ELSE <<x>> \o s

\* Array.prototype.sort((a, b) => b.score - a.score), which is stable
RECURSIVE SortDesc(_)
SortDesc(s) ==
    IF s = << >> THEN << >>
    ELSE InsertDesc(s[Len(s)], SortDesc(SubSeq(s, 1, Len(s) - 1)))

\* milvusClient.search: the rows by descending similarity, at most limit
MilvusSearch(rows, score, limit) ==
    Slice(SortDesc([i \in 1..Len(rows) |->
                      [productId |-> rows[i].productId, score |-> score[i]]]),
          limit)

-----------------------------------------------------------------------------
(* MultimodalProcessor.searchProductEmbedding *)

SeqRange(s) == {s[i] : i \in 1..Len(s)}

\* productMap.set(result.productId, result) when the product is new or the
\* stored hit scores less
MapPutHigher(m, r) ==
    IF \E i \in 1..Len(m) : m[i].productId = r.productId
    THEN [i \in 1..Len(m) |->
            IF m[i].productId = r.productId /\ m[i].score < r.score
            THEN r ELSE m[i]]
    ELSE Append(m, r)

RECURSIVE ProductMap(_)
ProductMap(combined) ==
    IF combined = << >> THEN << >>
    ELSE MapPutHigher(ProductMap(SubSeq(combined, 1, Len(combined) - 1)),
                      combined[Len(combined)])

TextResults(hits) ==
    [i \in 1..Len(hits) |-> [productId |-> hits[i].productId,
                             score |-> hits[i].score * TextWeight,
                             searchType |-> "text"]]

ImageResults(hits) ==
    [i \in 1..Len(hits) |-> [productId |-> hits[i].productId,
                             score |-> hits[i].score * ImageWeight,
                             searchType |-> "image"]]

\* the value searchProductEmbedding(searchText, limit) returns, given the
\* similarity of every row to the query on each vector field
SearchProductEmbedding(rows, textScore, imageScore, limit) ==
    LET textResults == TextResults(MilvusSearch(rows, textScore, limit * 2))
        imageResults == ImageResults(MilvusSearch(rows, imageScore, limit))
    IN  Slice(SortDesc(ProductMap(textResults \o imageResults)), limit)

\* searchByImageEmbedding(imageInput, limit): the rows nearest to the image
\* on the image field, at most limit * 2 of them, each tagged visual
SearchByImageEmbedding(rows, imageScore, limit) ==
    LET hits == MilvusSearch(rows, imageScore, limit * 2)
    IN  [i \in 1..Len(hits) |-> [productId |-> hits[i].productId,
                                 score |-> hits[i].score,
                                 matchType |-> "visual"]]

-----------------------------------------------------------------------------
(* MultimodalProcessor.ragSearch: the merge *)

HasSourceId(m, id) == \E i \in 1..Len(m) : m[i].sourceId = id

\* semanticProducts.find((p) => p.sourceId === productId)
FirstWithSourceId(docs, id) ==
    docs[CHOOSE i \in 1..Len(docs) :
            /\ docs[i].sourceId = id
            /\ \A j \in 1..(i - 1) : docs[j].sourceId /= id]

Tagged(doc, method, score) ==
    [_id |-> doc._id, sourceId |-> doc.sourceId,
     _searchMethod |-> method, _searchScore |-> score]

\* a first loop that sets an entry for every hit, resolved or not
AddSemanticUnresolved(semantic, semanticProducts, n) ==
    [i \in 1..n |->
        [_id |-> 0, sourceId |-> semantic[i].productId,
         _searchMethod |-> "semantic", _searchScore |-> semantic[i].score]]

\* semanticProductIds.forEach(...) over the first n hits
RECURSIVE AddSemantic(_, _, _)
AddSemantic(semantic, semanticProducts, n) ==
    IF n = 0 THEN << >>
    ELSE LET m == AddSemantic(semantic, semanticProducts, n - 1)
             id == semantic[n].productId
         IN  IF /\ \E i \in 1..Len(semanticProducts) :
                        semanticProducts[i].sourceId = id
                /\ ~HasSourceId(m, id)
             THEN Append(m, Tagged(FirstWithSourceId(semanticProducts, id),
                                   "semantic", semantic[n].score))
             ELSE m

\* the exact products pushed onto the list without the has() test
AddExactUnchecked(m0, exact, n) ==
    m0 \o [i \in 1..n |-> Tagged(exact[i], "exact", NoScore)]

\* exactResults.forEach(...) over the first n documents
RECURSIVE AddExact(_, _, _)
AddExact(m0, exact, n) ==
    IF n = 0 THEN m0
    ELSE LET m == AddExact(m0, exact, n - 1)
         IN  IF ~HasSourceId(m, exact[n].sourceId)
             THEN Append(m, Tagged(exact[n], "exact", NoScore))
             ELSE m

\* the two loops in the other order: the exact products are set first and a
\* semantic hit is added only when its product is not there yet
CombinedExactFirst(cat, exact, semantic) ==
    LET semanticProductIds == {semantic[i].productId : i \in 1..Len(semantic)}
        semanticProducts == FindBySourceIds(cat, semanticProductIds)
        ex == AddExact(<< >>, exact, Len(exact))
        sem == AddSemantic(semantic, semanticProducts, Len(semantic))
    IN  ex \o SelectSeq(sem, LAMBDA d : ~HasSourceId(ex, d.sourceId))

\* the branch that settled first is merged first
CombinedArrivalOrder(cat, exact, semantic) ==
    LET semanticProductIds == {semantic[i].productId : i \in 1..Len(semantic)}
        semanticProducts == FindBySourceIds(cat, semanticProductIds)
    IN  IF settled /= << >> /\ settled[1] = "exact"
        THEN CombinedExactFirst(cat, exact, semantic)
        ELSE AddExact(AddSemantic(semantic, semanticProducts, Len(semantic)),
                      exact, Len(exact))

\* the merge without its second loop: the exact products are left out
CombinedSemanticOnly(cat, exact, semantic) ==
    LET semanticProductIds == {semantic[i].productId : i \in 1..Len(semantic)}
        semanticProducts == FindBySourceIds(cat, semanticProductIds)
    IN  AddSemantic(semantic, semanticProducts, Len(semantic))

\* Array.from(combinedProductMap.values())
CombinedProductMap(cat, exact, semantic) ==
    LET semanticProductIds == {semantic[i].productId : i \in 1..Len(semantic)}
        semanticProducts == FindBySourceIds(cat, semanticProductIds)
    IN  AddExact(AddSemantic(semantic, semanticProducts, Len(semantic)),
                 exact, Len(exact))

-----------------------------------------------------------------------------
(* Requests and their results *)

Pending == [st |-> "pending", val |-> << >>]
Failed == [st |-> "failed", val |-> << >>]
Done(v) == [st |-> "done", val |-> v]

NoImage == [len |-> 0, body |-> "none"]
NoReq == [kind |-> "none", present |-> FALSE, keyword |-> Empty,
          query |-> Empty, limit |-> 0, image |-> NoImage, file |-> 0]
NoResult == [st |-> "none", items |-> << >>]
NoResp == [status |-> 0, kind |-> "none", items |-> << >>]
NoClient == [via |-> "none", items |-> << >>]

\* the dependencies of a request: what it called, and which calls raised
Called(c) == calls' = calls \cup c
Raised(c) == failed' = failed \cup c

-----------------------------------------------------------------------------
(* MultimodalProcessor.ragSearch as a process *)

\* a direct call processor.ragSearch(Product, query, limit)
RagQueries == {UpperTV, PC}

\* entry of ragSearch: both branches of Promise.all are started
EnterRagSearch ==
    /\ pc' = "rag"
    /\ exactResults' = Pending
    /\ settled' = << >>
    /\ semanticResults' = Pending
    /\ merged' = << >>
    /\ result' = NoResult

CallRagSearch(query, limit) ==
    /\ pc = "idle"
    /\ req' = [NoReq EXCEPT !.kind = "rag", !.present = TRUE,
                            !.query = query, !.limit = limit]
    /\ EnterRagSearch
    /\ calls' = {}
    /\ failed' = {}
    /\ UNCHANGED <<catalog, index, collection, resp, tmpFiles, client>>
    /\ UNCHANGED ingestVars

\* the exact branch: Product.find({ $or: ... }).limit(limit) settles
ExactBranch ==
    /\ pc = "rag"
    /\ exactResults.st = "pending"
    /\ Called({"Product.find(keyword)"})
    /\ \E ok \in BOOLEAN :
         IF ok
         THEN /\ exactResults' =
                    Done(FindByKeyword(catalog, req.query, req.limit))
              /\ UNCHANGED failed
         ELSE /\ exactResults' = Failed
              /\ Raised({"Product.find(keyword)"})
    /\ settled' = Append(settled, "exact")
    /\ UNCHANGED <<catalog, index, collection, pc, req, semanticResults,
                   merged, result, resp, tmpFiles, client>>
    /\ UNCHANGED ingestVars

\* getEmbedding(text, false) raises on a text that is empty once trimmed
EmbeddableText(text) == Trim(text) /= Empty

\* the semantic branch: searchProductEmbedding(query, limit * 2) settles;
\* the search of a collection that is not loaded raises
SemanticBranch ==
    /\ pc = "rag"
    /\ semanticResults.st = "pending"
    /\ IF ~EmbeddableText(req.query)
       THEN /\ semanticResults' = Failed
            /\ UNCHANGED <<calls, failed>>
       ELSE \E embedOk \in BOOLEAN :
              IF ~embedOk
              THEN /\ semanticResults' = Failed
                   /\ Called({"embeddingModel"})
                   /\ Raised({"embeddingModel"})
              ELSE /\ Called({"embeddingModel", "milvus.search"})
                   /\ \E searchOk \in {collection = "Loaded", FALSE} :
                        IF ~searchOk
                        THEN /\ semanticResults' = Failed
                             /\ Raised({"milvus.search"})
                        ELSE /\ \E textScore \in [1..Len(index) -> Scores],
                                   imageScore \in [1..Len(index) -> Scores] :
                                  semanticResults' =
                                    Done(SearchProductEmbedding(index,
                                           textScore, imageScore,
                                           req.limit * 2))
                             /\ UNCHANGED failed
    /\ settled' = Append(settled, "semantic")
    /\ UNCHANGED <<catalog, index, collection, pc, req, exactResults, merged,
                   result, resp, tmpFiles, client>>
    /\ UNCHANGED ingestVars

\* Promise.all rejects as soon as one branch has raised: ragSearch logs and
\* rethrows
RagThrow ==
    /\ pc = "rag"
    /\ exactResults.st = "failed" \/ semanticResults.st = "failed"
    /\ pc' = "ragDone"
    /\ result' = [st |-> "error", items |-> << >>]
    /\ UNCHANGED <<catalog, index, collection, req, exactResults,
                   semanticResults, merged, calls, failed, resp, tmpFiles,
                   client,
                   settled>>
    /\ UNCHANGED ingestVars

\* both branches fulfilled: resolve the semantic ids, merge, truncate
RagMerge ==
    /\ pc = "rag"
    /\ exactResults.st = "done"
    /\ semanticResults.st = "done"
    /\ pc' = "ragDone"
    /\ Called({"Product.find(sourceId)"})
    /\ \E ok \in BOOLEAN :
         IF ok
         THEN /\ merged' = CombinedProductMap(catalog, exactResults.val,
                                              semanticResults.val)
              /\ result' = [st |-> "ok", items |-> Slice(merged', req.limit)]
              /\ UNCHANGED failed
         ELSE /\ result' = [st |-> "error", items |-> << >>]
              /\ Raised({"Product.find(sourceId)"})
              /\ UNCHANGED merged
    /\ UNCHANGED <<catalog, index, collection, req, exactResults,
                   semanticResults, resp, tmpFiles, client,
                   settled>>
    /\ UNCHANGED ingestVars

\* ragSearch has returned to a route: its locals are gone
LeaveRagSearch ==
    /\ exactResults' = Pending
    /\ settled' = << >>
    /\ semanticResults' = Pending
    /\ merged' = << >>

\* the request is over: the next one can start
Reset ==
    /\ pc' = "idle"
    /\ req' = NoReq
    /\ exactResults' = Pending
    /\ settled' = << >>
    /\ semanticResults' = Pending
    /\ merged' = << >>
    /\ result' = NoResult
    /\ calls' = {}
    /\ failed' = {}
    /\ resp' = NoResp
    /\ client' = NoClient
    /\ UNCHANGED <<catalog, index, collection, tmpFiles>>
    /\ UNCHANGED ingestVars

\* the direct caller has its value
RagReturn ==
    /\ pc = "ragDone"
    /\ req.kind = "rag"
    /\ Reset

-----------------------------------------------------------------------------
(* Specification of the processor called directly *)

Init ==
    /\ catalog \in Catalogs
    /\ index \in Indexes
    /\ collection \in {"Absent", "Created", "Loaded"}
    /\ collection = "Absent" => index = << >>
    /\ pc = "idle"
    /\ req = NoReq
    /\ exactResults = Pending
    /\ semanticResults = Pending
    /\ settled = << >>
    /\ merged = << >>
    /\ result = NoResult
    /\ calls = {}
    /\ failed = {}
    /\ resp = NoResp
    /\ tmpFiles = {}
    /\ client = NoClient
    /\ rowIds = [i \in 1..Len(index) |-> i]
    /\ vectorIndexes = IF collection = "Absent" THEN {} ELSE VectorFields
    /\ unflushed = 0
    /\ clock = 0
    /\ ingest = NoIngest
    /\ stored = NoReport
    /\ llm = NoExpansion
    /\ models = Constructed
    /\ images = NoImages
    /\ requests = NoRequests
    /\ reset = NoReset

Next ==
    \/ \E q \in RagQueries, l \in 1..MaxLimit : CallRagSearch(q, l)
    \/ ExactBranch
    \/ SemanticBranch
    \/ RagThrow
    \/ RagMerge
    \/ RagReturn

Spec == Init /\ [][Next]_vars

-----------------------------------------------------------------------------
(* ragSearch when a dependency may never answer *)

Hung == [st |-> "hung", val |-> << >>]

\* the request a branch of Promise.all is waiting on is never answered: the
\* branch neither fulfils nor rejects
BranchHangs ==
    /\ pc = "rag"
    /\ \/ /\ exactResults.st = "pending"
          /\ exactResults' = Hung
          /\ Called({"Product.find(keyword)"})
          /\ UNCHANGED semanticResults
       \/ /\ semanticResults.st = "pending"
          /\ EmbeddableText(req.query)
          /\ semanticResults' = Hung
          /\ Called({"embeddingModel"})
          /\ UNCHANGED exactResults
    /\ UNCHANGED <<catalog, index, collection, pc, req, merged, result, failed,
                   resp, tmpFiles, client, settled>>
    /\ UNCHANGED ingestVars

\* explored over collections of at most MaxRouteRows rows
InitCancel ==
    /\ Init
    /\ Len(index) <= MaxRouteRows

NextCancel ==
    \/ Next
    \/ BranchHangs

\* every await whose promise settles is resumed; nothing obliges a caller to
\* call, or a dependency to answer
FairCancel ==
    /\ WF_vars(ExactBranch)
    /\ WF_vars(SemanticBranch)
    /\ WF_vars(RagThrow)
    /\ WF_vars(RagMerge)
    /\ WF_vars(RagReturn)

SpecCancel == InitCancel /\ [][NextCancel]_vars /\ FairCancel

-----------------------------------------------------------------------------
(* routes/products.js: helpers *)

GetAllLimit == 20          \* Product.find(filter).limit(20)
DefaultLimit == 10         \* let limit = 10
ShortQueryWords == 2       \* searchText.split(/\s+/).length <= 2
ShortQueryLimit == 16
LongQueryLength == 30      \* searchText.length >= 30
LongQueryLimit == 8
MaxImageLength == 2000000  \* image.length > 2000000
ImageSearchLimit == 10     \* ragSearch(Product, imageCaption, 10)

\* the methods the logger object of the routes defines
LoggerMethods == {"info", "error", "success", "debug"}

\* calling a method the logger does not have raises a TypeError
LoggerRaises(method) == method \notin LoggerMethods

\* searchText.split(/\s+/).length, for a trimmed searchText
SplitLength(s) ==
    1 + Cardinality({i \in 2..Len(s) : s[i] = " " /\ s[i - 1] /= " "})

\* the limit the route passes to processor.ragSearch
RouteLimit(searchText) ==
    IF Len(searchText) >= LongQueryLength THEN LongQueryLimit
    ELSE IF SplitLength(searchText) <= ShortQueryWords THEN ShortQueryLimit
    ELSE DefaultLimit

Untagged(docs) ==
    [i \in 1..Len(docs) |-> Tagged(docs[i], "none", NoScore)]

\* getAll(query): Product.find({ $or: [name, category] }).limit(20), or
\* Product.find({}).limit(20) when the keyword is missing or empty
GetAll(cat, hasKeyword, keyword) ==
    IF hasKeyword /\ keyword /= Empty
    THEN Untagged(Slice(SelectSeq(cat,
                          LAMBDA d : \/ RegexMatch(d.name, keyword)
                                     \/ RegexMatch(d.category, keyword)),
                        GetAllLimit))
    ELSE Untagged(Slice(cat, GetAllLimit))

\* if (!query): undefined and the empty string are falsy
MissingKeyword(present, keyword) == ~present \/ keyword = Empty

ErrorResp(status) == [status |-> status, kind |-> "error", items |-> << >>]
ListResp(items) == [status |-> 200, kind |-> "list", items |-> items]

\* the route answers and the handler is over
Respond(r) ==
    /\ resp' = r
    /\ pc' = "done"

\* return getAll(...) inside ragSearch: the listing, or AppError when the
\* query raises
RespondGetAll(hasKeyword, keyword) ==
    /\ Called({"Product.find(getAll)"})
    /\ \E ok \in BOOLEAN :
         IF ok
         THEN /\ Respond(ListResp(GetAll(catalog, hasKeyword, keyword)))
              /\ UNCHANGED failed
         ELSE /\ Respond(ErrorResp(500))
              /\ Raised({"Product.find(getAll)"})

-----------------------------------------------------------------------------
(* routes/products.js: GET /search *)

Blank == <<" ">>
PaddedTV == <<" ", "T", "v">>
ThreeWords == <<"t", "v", " ", "p", "c", " ", " ", "t", "v">>
LongQuery == [i \in 1..LongQueryLength |-> IF i = 3 THEN " " ELSE "t"]

Keywords == {Empty, Blank, PaddedTV, PC, ThreeWords, LongQuery}

\* router.get("/search") calls ragSearch(req.query), which runs to its first
\* await
SearchRequest(present, keyword) ==
    /\ pc = "idle"
    /\ present \/ keyword = Empty
    /\ IF MissingKeyword(present, keyword)
       THEN /\ req' = [NoReq EXCEPT !.kind = "search", !.present = present,
                                    !.keyword = keyword]
            /\ RespondGetAll(FALSE, Empty)
       ELSE /\ req' = [NoReq EXCEPT !.kind = "search", !.present = present,
                                    !.keyword = keyword,
                                    !.query = Trim(keyword)]
            /\ pc' = "init"
            /\ UNCHANGED <<calls, failed, resp>>
    /\ UNCHANGED <<catalog, index, collection, exactResults, semanticResults,
                   merged, result, tmpFiles, client,
                   settled>>
    /\ UNCHANGED ingestVars

\* await multimodalProcessor.init(): the two pipelines are loaded, then
\* testLLMConnection probes the LLM and swallows its failure
ProcessorInit ==
    /\ pc = "init"
    /\ Called({"pipeline", "llm.testLLMConnection"})
    /\ \E ok \in BOOLEAN :
         IF ok
         THEN /\ pc' = "initializeCollection"
              /\ UNCHANGED <<failed, resp>>
         ELSE /\ Respond(ErrorResp(500))
              /\ Raised({"pipeline"})
    /\ UNCHANGED <<catalog, index, collection, req, exactResults,
                   semanticResults, merged, result, tmpFiles, client,
                   settled>>
    /\ UNCHANGED ingestVars

\* loadCollection is refused while a vector field of the collection has no
\* index
Loadable(fields) == fields = VectorFields

\* the Milvus calls of initializeCollection that runs to its end, without the
\* check of collectionExists
CollectionCallsUnchecked(exists) ==
    {"milvus.listCollections", "milvus.createCollection",
     "milvus.createIndex", "milvus.loadCollection"}

\* the Milvus calls of initializeCollection that runs to its end
CollectionCalls(exists) ==
    IF exists
    THEN {"milvus.listCollections", "milvus.loadCollection",
          "milvus.getCollectionStatistics"}
    ELSE {"milvus.listCollections", "milvus.createCollection",
          "milvus.createIndex", "milvus.loadCollection"}

\* one way initializeCollection can end
\* an initializeCollection that answers a failure by dropping the collection
OutcomeDropping(ok, callSet, raised, state, fields) ==
    [ok |-> ok, calls |-> callSet, raised |-> raised,
     collection |-> IF ok THEN state ELSE "Absent",
     vectorIndexes |-> IF ok THEN fields ELSE {}]

Outcome(ok, callSet, raised, state, fields) ==
    [ok |-> ok, calls |-> callSet, raised |-> raised, collection |-> state,
     vectorIndexes |-> fields]

\* the ways initializeCollection can end on a collection in state `state`
\* with the indexes `fields`: every Milvus call can raise, and what was done
\* before it stays done
InitializeCollectionOutcomes(state, fields) ==
    LET exists == state /= "Absent"
        list == "milvus.listCollections"
        load == "milvus.loadCollection"
        stats == "milvus.getCollectionStatistics"
        create == "milvus.createCollection"
        createIndex == "milvus.createIndex"
    IN  {Outcome(FALSE, {list}, {list}, state, fields)}
        \cup
        (IF exists
         THEN {Outcome(FALSE, {list, load}, {load}, state, fields)}
              \cup
              (IF Loadable(fields)
               THEN {Outcome(FALSE, {list, load, stats}, {stats}, "Loaded",
                             fields),
                     Outcome(TRUE, CollectionCalls(exists), {}, "Loaded",
                             fields)}
               ELSE {})
         ELSE {Outcome(FALSE, {list, create}, {create}, state, fields)}
              \cup
              {Outcome(FALSE, {list, create, createIndex}, {createIndex},
                       "Created", built) :
                 built \in (SUBSET VectorFields) \ {VectorFields}}
              \cup
              {Outcome(FALSE, {list, create, createIndex, load}, {load},
                       "Created", VectorFields),
               Outcome(TRUE, CollectionCalls(exists), {}, "Loaded",
                       VectorFields)})

\* await multimodalProcessor.initializeCollection() in a route: any Milvus
\* failure is rethrown and ends the request
InitializeCollection ==
    /\ pc = "initializeCollection"
    /\ \E o \in InitializeCollectionOutcomes(collection, vectorIndexes) :
         /\ collection' = o.collection
         /\ vectorIndexes' = o.vectorIndexes
         /\ Called(o.calls)
         /\ Raised(o.raised)
         /\ IF o.ok
            THEN /\ pc' = IF req.kind = "search" THEN "testConnection"
                          ELSE "generateCaption"
                 /\ UNCHANGED resp
            ELSE Respond(ErrorResp(500))
    /\ UNCHANGED <<catalog, index, req, exactResults, semanticResults, merged,
                   result, tmpFiles, client, settled>>
    /\ UNCHANGED <<rowIds, unflushed, clock, ingest, stored, llm, models,
                   images, requests, reset>>

\* testConnection(): true when getVersion answers; its failure is rethrown,
\* so the caller never sees false
TestConnectionValue(reachable) == IF reachable THEN "true" ELSE "throw"

\* const isConnected = await multimodalProcessor.testConnection(), the
\* limit, and the call of processor.ragSearch
TestConnection ==
    /\ pc = "testConnection"
    /\ Called({"milvus.getVersion"})
    /\ \E reachable \in BOOLEAN :
         LET isConnected == TestConnectionValue(reachable)
         IN  CASE isConnected = "true" ->
                    /\ req' = [req EXCEPT !.limit = RouteLimit(req.query)]
                    /\ EnterRagSearch
                    /\ UNCHANGED <<failed, resp>>
               [] isConnected = "throw" ->
                    /\ Respond(ErrorResp(500))
                    /\ Raised({"milvus.getVersion"})
                    /\ UNCHANGED <<req, exactResults, semanticResults, merged,
                                   result,
                                   settled>>
               [] OTHER ->
                    \* if (!isConnected) { logger.warn(...); return getAll }
                    /\ IF LoggerRaises("warn")
                       THEN Respond(ErrorResp(500))
                       ELSE Respond(ListResp(GetAll(catalog, TRUE, req.query)))
                    /\ UNCHANGED <<failed, req, exactResults, semanticResults,
                                   merged, result,
                                   settled>>
    /\ UNCHANGED <<catalog, index, collection, tmpFiles, client>>
    /\ UNCHANGED ingestVars

\* processor.ragSearch has settled: the route returns its results, or, on
\* an empty list, warns and falls back to getAll; errors become AppError
SearchAfterRag ==
    /\ pc = "ragDone"
    /\ req.kind = "search"
    /\ IF result.st = "error"
       THEN /\ Respond(ErrorResp(500))
            /\ UNCHANGED <<calls, failed>>
       ELSE IF result.items = << >>
       THEN IF LoggerRaises("warn")
            THEN /\ Respond(ErrorResp(500))
                 /\ UNCHANGED <<calls, failed>>
            ELSE RespondGetAll(TRUE, req.query)
       ELSE /\ Respond([status |-> 200, kind |-> "results",
                        items |-> result.items])
            /\ UNCHANGED <<calls, failed>>
    /\ LeaveRagSearch
    /\ UNCHANGED <<catalog, index, collection, req, result, tmpFiles, client>>
    /\ UNCHANGED ingestVars

\* res.json(items) or next(error) has been sent
SearchFinish ==
    /\ pc = "done"
    /\ req.kind = "search"
    /\ Reset

-----------------------------------------------------------------------------
(* routes/products.js: POST /image-search, and the client that calls it *)

MaxTmpFiles == 2     \* temporary files the model lets accumulate

\* the image strings a request can carry: their length, and whether the
\* part validateImageData extracts is base64
Images == [len : {1, MaxImageLength, MaxImageLength + 1},
           body : {"base64", "garbage"}]

\* if (!image): undefined and the empty string are falsy
MissingImage(present, image) == ~present \/ image.len = 0

\* the ceiling compared with the decoded size, three bytes for four characters
TooLargeDecoded(image) == (image.len * 3) \div 4 > MaxImageLength

\* if (image.length > 2000000)
TooLarge(image) == image.len > MaxImageLength

\* validateImageData(base64Data).valid: the data part, with its data-URL
\* prefix removed, matches /^[A-Za-z0-9+/=]+$/
ValidateImageData(image) == image.body = "base64"

\* the captions the LLM can answer with
NoMatch == <<"z">>
Captions == {TV, NoMatch}

\* `search_${timestamp}_${randomStr}`: a name no existing file has
FreshFile == CHOOSE f \in 1..(MaxTmpFiles + 1) : f \notin tmpFiles

\* the route's answer to the list processImageSearch returned
RespondImageResults(items) ==
    IF items = << >>
    THEN IF LoggerRaises("warn")
         THEN Respond(ErrorResp(500))
         ELSE Respond([status |-> 200, kind |-> "empty", items |-> << >>])
    ELSE Respond([status |-> 200, kind |-> "results", items |-> items])

\* router.post("/image-search"): the checks of the route, then
\* processImageSearch up to its first await: validation, Buffer.from and
\* processImageFile, which writes the temporary file
ImageSearchRequest(present, image) ==
    /\ pc = "idle"
    /\ Cardinality(tmpFiles) < MaxTmpFiles
    /\ present \/ image = NoImage
    /\ IF MissingImage(present, image) \/ TooLarge(image)
       THEN /\ req' = [NoReq EXCEPT !.kind = "image", !.present = present,
                                    !.image = image]
            /\ Respond(ErrorResp(400))
            /\ UNCHANGED <<calls, failed, tmpFiles>>
       ELSE IF ~ValidateImageData(image)
       THEN /\ req' = [NoReq EXCEPT !.kind = "image", !.present = present,
                                    !.image = image]
            /\ RespondImageResults(<< >>)
            /\ UNCHANGED <<calls, failed, tmpFiles>>
       ELSE /\ Called({"fs.writeFileSync"})
            /\ \E ok \in BOOLEAN :
                 IF ok
                 THEN /\ req' = [NoReq EXCEPT !.kind = "image",
                                    !.present = present, !.image = image,
                                    !.file = FreshFile]
                      /\ tmpFiles' = tmpFiles \cup {FreshFile}
                      /\ pc' = "init"
                      /\ UNCHANGED <<failed, resp>>
                 ELSE /\ req' = [NoReq EXCEPT !.kind = "image",
                                    !.present = present, !.image = image]
                      /\ Respond(ErrorResp(500))
                      /\ Raised({"fs.writeFileSync"})
                      /\ UNCHANGED tmpFiles
    /\ UNCHANGED <<catalog, index, collection, exactResults, semanticResults,
                   merged, result, client,
                   settled>>
    /\ UNCHANGED ingestVars

\* await multimodalProcessor.generateCaption(id, tempFilePath): the file is
\* read and downscaled and one completion is asked of the LLM; then
\* processor.ragSearch(Product, imageCaption, 10) is called
GenerateCaption ==
    /\ pc = "generateCaption"
    /\ Called({"sharp", "llm.generateCompletionSync"})
    /\ \E ok \in BOOLEAN :
         IF ok
         THEN \E caption \in Captions :
                /\ req' = [req EXCEPT !.query = caption,
                                      !.limit = ImageSearchLimit]
                /\ EnterRagSearch
                /\ UNCHANGED <<failed, resp>>
         ELSE /\ Respond(ErrorResp(500))
              /\ Raised({"llm.generateCompletionSync"})
              /\ UNCHANGED <<req, exactResults, semanticResults, merged,
                             result,
                             settled>>
    /\ UNCHANGED <<catalog, index, collection, tmpFiles, client>>
    /\ UNCHANGED ingestVars

\* processor.ragSearch has settled inside processImageSearch: on success the
\* temporary file is unlinked (a failure to unlink is logged only) and the
\* results returned; an error skips the unlink and becomes AppError
ImageAfterRag ==
    /\ pc = "ragDone"
    /\ req.kind = "image"
    /\ IF result.st = "error"
       THEN /\ Respond(ErrorResp(500))
            /\ UNCHANGED <<calls, failed, tmpFiles>>
       ELSE /\ Called({"fs.unlinkSync"})
            /\ \E unlinked \in BOOLEAN :
                 IF unlinked
                 THEN /\ tmpFiles' = tmpFiles \ {req.file}
                      /\ UNCHANGED failed
                 ELSE /\ Raised({"fs.unlinkSync"})
                      /\ UNCHANGED tmpFiles
            /\ RespondImageResults(result.items)
    /\ LeaveRagSearch
    /\ UNCHANGED <<catalog, index, collection, req, result, client>>
    /\ UNCHANGED ingestVars

\* client/src/data/products.ts imageSearchProducts: a non-empty array is
\* mapped and returned; an answer that is no array or is empty falls back
\* to ragSearchProducts('clothing'); a failed request (axios raises on 4xx
\* and 5xx) falls back to fetchProducts()
ClientImageSearch ==
    /\ pc = "done"
    /\ req.kind = "image"
    /\ pc' = "clientDone"
    /\ IF resp.status = 200 /\ resp.kind = "results"
       THEN client' = [via |-> "image-search", items |-> resp.items]
       ELSE IF resp.status = 200
       THEN client' = [via |-> "ragSearchProducts(clothing)",
                       items |-> << >>]
       ELSE \E ok \in BOOLEAN :
              client' = [via |-> "fetchProducts",
                         items |-> IF ok THEN Untagged(catalog) ELSE << >>]
    /\ UNCHANGED <<catalog, index, collection, req, exactResults,
                   semanticResults, merged, result, calls, failed, resp,
                   tmpFiles,
                   settled>>
    /\ UNCHANGED ingestVars

\* imageSearchProducts has returned to the page
ImageFinish ==
    /\ pc = "clientDone"
    /\ Reset

-----------------------------------------------------------------------------
(* Specification of the routes *)

NextRoutes ==
    \/ \E present \in BOOLEAN, k \in Keywords : SearchRequest(present, k)
    \/ \E present \in BOOLEAN, i \in Images \cup {NoImage} :
         ImageSearchRequest(present, i)
    \/ ProcessorInit
    \/ InitializeCollection
    \/ TestConnection
    \/ GenerateCaption
    \/ ExactBranch
    \/ SemanticBranch
    \/ RagThrow
    \/ RagMerge
    \/ SearchAfterRag
    \/ SearchFinish
    \/ ImageAfterRag
    \/ ClientImageSearch
    \/ ImageFinish

\* the routes are explored over collections of at most MaxRouteRows rows
InitRoutes ==
    /\ Init
    /\ Len(index) <= MaxRouteRows

SpecRoutes == InitRoutes /\ [][NextRoutes]_vars

-----------------------------------------------------------------------------
(* Properties of processor.ragSearch *)

SourceIds(items) == {items[i].sourceId : i \in 1..Len(items)}
ProductIds(hits) == {hits[i].productId : i \in 1..Len(hits)}
NoRepeatedSourceId(items) ==
    \A i, j \in 1..Len(items) : items[i].sourceId = items[j].sourceId => i = j

RagReturned == pc = "ragDone" /\ result.st = "ok"

\* C1: the list ragSearch returns for a non-empty query has at most limit
\* elements and no two of them share a sourceId, whatever the branches return
C1_AtMostLimitUnique ==
    RagReturned =>
        /\ Len(result.items) <= req.limit
        /\ NoRepeatedSourceId(result.items)

\* both branches return the same product and the merge holds more products
\* than the limit allows, so the cut at limit acts
C1_Witness ==
    /\ RagReturned
    /\ Len(merged) > req.limit
    /\ SourceIds(exactResults.val) \cap ProductIds(semanticResults.val) /= {}

\* the place of sourceId id in the list items (0 when it has none)
PlaceOf(items, id) ==
    IF \E i \in 1..Len(items) : items[i].sourceId = id
    THEN CHOOSE i \in 1..Len(items) : items[i].sourceId = id
    ELSE 0

InCatalog(id) == \E i \in 1..Len(catalog) : catalog[i].sourceId = id

\* the products both branches returned
InBothBranches ==
    SourceIds(exactResults.val) \cap ProductIds(semanticResults.val)

\* C4: a product returned by both branches is in the merged list exactly
\* once, tagged semantic with its semantic score, at the place its rank among
\* the semantic hits gives it, ahead of every exact-only product; the
\* returned list is the merged list cut at limit
C4_MergePrecedence ==
    RagReturned =>
        /\ \A n \in 1..Len(semanticResults.val) :
             LET hit == semanticResults.val[n]
                 p == PlaceOf(merged, hit.productId)
             IN  hit.productId \in InBothBranches =>
                   /\ Cardinality({i \in 1..Len(merged) :
                         merged[i].sourceId = hit.productId}) = 1
                   /\ merged[p]._searchMethod = "semantic"
                   /\ merged[p]._searchScore = hit.score
                   /\ p = Cardinality({m \in 1..n :
                             InCatalog(semanticResults.val[m].productId)})
                   /\ \A i \in 1..Len(merged) :
                        merged[i]._searchMethod = "exact" => p < i
        /\ result.items = SubSeq(merged, 1, Min(req.limit, Len(merged)))

\* a product of both branches ranks behind another semantic hit, and the
\* exact branch also returned a product the semantic branch did not
C4_Witness ==
    /\ RagReturned
    /\ \E n \in 2..Len(semanticResults.val) :
         semanticResults.val[n].productId \in InBothBranches
    /\ \E i \in 1..Len(merged) : merged[i]._searchMethod = "exact"

\* C3: when the semantic branch raised and the exact branch succeeded, the
\* search returns the exact-branch results and no error
C3_SemanticFailureDegrades ==
    (/\ pc = "ragDone"
     /\ exactResults.st = "done"
     /\ semanticResults.st = "failed")
        => /\ result.st = "ok"
           /\ SourceIds(result.items) = SourceIds(exactResults.val)

\* C10: hits scored on the image field and hits scored on the text field are
\* not interleaved by score: the list searchProductEmbedding merges keeps the
\* hits of one field together
C10_TierBeforeScore ==
    semanticResults.st = "done" =>
        LET hits == semanticResults.val
        IN  \A i, j, k \in 1..Len(hits) :
              (i < j /\ j < k /\ hits[i].searchType = hits[k].searchType)
                  => hits[j].searchType = hits[i].searchType

\* the sourceIds of a list of products, in order
IdsOf(items) == [i \in 1..Len(items) |-> items[i].sourceId]

\* a sequence without the later occurrences of its elements
RECURSIVE FirstOccurrences(_)
FirstOccurrences(s) ==
    IF s = << >> THEN << >>
    ELSE LET r == FirstOccurrences(SubSeq(s, 1, Len(s) - 1))
         IN  IF \E i \in 1..Len(r) : r[i] = s[Len(s)]
             THEN r ELSE Append(r, s[Len(s)])

\* C11: the ordered list of productIds ragSearch returns is a function of the
\* values of the two branches alone (the semantic hits found in the catalog,
\* then the exact matches, cut at limit), whichever branch settled first
C11_OrderIndependent ==
    RagReturned =>
        LET semanticIds == [n \in 1..Len(semanticResults.val) |->
                              semanticResults.val[n].productId]
        IN  IdsOf(result.items) =
              Slice(FirstOccurrences(SelectSeq(semanticIds, InCatalog)
                                       \o IdsOf(exactResults.val)),
                    req.limit)

\* the semantic branch settled before the exact one, and each branch brought
\* a product the other did not
C11_Witness ==
    /\ RagReturned
    /\ settled = <<"semantic", "exact">>
    /\ \E i \in 1..Len(merged) : merged[i]._searchMethod = "exact"
    /\ \E i \in 1..Len(merged) :
         /\ merged[i]._searchMethod = "semantic"
         /\ merged[i].sourceId \notin SourceIds(exactResults.val)

\* C12: a call of ragSearch always returns to its caller, also when one of
\* its branches never completes
C12_AlwaysReturns == (pc = "rag") ~> (pc = "ragDone")

-----------------------------------------------------------------------------
(* Properties of the routes *)

\* the Milvus calls made before the search proper: those of
\* initializeCollection and the probe of testConnection
MilvusProbes == {"milvus.listCollections", "milvus.getVersion"}

\* GET /search has answered a request whose keyword has text in it
SearchAnswered ==
    /\ pc = "done"
    /\ req.kind = "search"
    /\ req.present
    /\ Trim(req.keyword) /= Empty

\* C2: when Milvus is unreachable while the collection is initialised or
\* probed, and nothing else fails, a search with a non-empty keyword answers
\* with the keyword matches of the catalog and no error
C2_MilvusDownDegrades ==
    (/\ SearchAnswered
     /\ failed /= {}
     /\ failed \subseteq MilvusProbes)
        => resp = ListResp(GetAll(catalog, TRUE, req.query))

\* the calls a search makes past the default listing
SearchCalls == {"embeddingModel", "milvus.search", "Product.find(keyword)"}

\* C5: a search whose keyword is empty or only whitespace answers with the
\* default listing, computes no embedding, issues no vector search and no
\* keyword-filter search, and returns no error when no dependency fails
C5_BlankShortCircuits ==
    (/\ pc = "done"
     /\ req.kind = "search"
     /\ req.present
     /\ Trim(req.keyword) = Empty
     /\ failed = {})
        => /\ resp = ListResp(GetAll(catalog, FALSE, Empty))
           /\ calls \cap SearchCalls = {}

\* C6: once processImageSearch has returned or raised, the temporary file it
\* wrote is gone, unless the unlink itself failed
C6_TempFileDeleted ==
    (/\ pc = "done"
     /\ req.kind = "image"
     /\ req.file /= 0
     /\ "fs.unlinkSync" \notin failed)
        => req.file \notin tmpFiles

\* C7: a request whose image has more than 2,000,000 characters is answered
\* 400 by the step that receives it: no file is written and no dependency is
\* called
C7_OversizeRejected ==
    [][(/\ pc = "idle"
        /\ req'.kind = "image"
        /\ req'.image.len > MaxImageLength)
           => /\ pc' = "done"
              /\ resp' = ErrorResp(400)
              /\ calls' = {}
              /\ tmpFiles' = tmpFiles
              /\ req'.file = 0]_vars

\* an image one character over the ceiling, otherwise valid, has been
\* answered
C7_Witness ==
    /\ pc = "done"
    /\ req.kind = "image"
    /\ req.image = [len |-> MaxImageLength + 1, body |-> "base64"]
    /\ resp.status = 400

\* C8: with a non-empty catalog, an image search that found nothing and met no
\* failure answers without an error and the caller ends with the results of
\* the generic fallback query
C8_EmptyImageSearchFallsBack ==
    (/\ pc = "clientDone"
     /\ req.kind = "image"
     /\ catalog /= << >>
     /\ result.st = "ok"
     /\ result.items = << >>
     /\ failed = {})
        => /\ resp.status = 200
           /\ client.via = "ragSearchProducts(clothing)"

\* C9: a product in the list processImageSearch returns that the search on
\* the image vector field hits is tagged visual, whatever else hit it
C9_VisualPrecedence ==
    (/\ pc = "done"
     /\ req.kind = "image"
     /\ result.st = "ok"
     /\ failed = {})
        => \A imageScore \in [1..Len(index) -> Scores] :
             \A i \in 1..Len(result.items) :
               result.items[i].sourceId \in
                   ProductIds(SearchByImageEmbedding(index, imageScore,
                                                     ImageSearchLimit))
                 => result.items[i]._searchMethod = "visual"

\* the calls a search on the image vector field makes: the CLIP model on
\* the image, then milvusClient.search on image_vector
SearchByImageCalls == {"clipModel", "milvus.search(image_vector)"}

\* C13: in an image search the search on the image vector field has been
\* started by the time the caption-derived text search is in flight
C13_BranchesStartTogether ==
    (/\ req.kind = "image"
     /\ pc = "rag")
        => calls \cap SearchByImageCalls /= {}

\* initializeCollection has just returned true in a route
InitializeCollectionReturns ==
    /\ pc = "initializeCollection"
    /\ pc' \in {"testConnection", "generateCaption"}

\* C17: a successful initializeCollection leaves the collection Loaded with
\* both vector indexes and the rows it had; on a collection that exists it
\* issues no createCollection and no createIndex and reads the statistics
C17_InitializeCollectionIdempotent ==
    [][InitializeCollectionReturns =>
         /\ collection' = "Loaded"
         /\ vectorIndexes' = VectorFields
         /\ index' = index
         /\ rowIds' = rowIds
         /\ collection /= "Absent" =>
              /\ calls' \cap {"milvus.createCollection",
                              "milvus.createIndex"} = {}
              /\ "milvus.getCollectionStatistics" \in calls'
              /\ vectorIndexes' = vectorIndexes]_vars

\* initializeCollection has returned on a collection that existed with rows
C17_Witness ==
    /\ pc \in {"testConnection", "generateCaption"}
    /\ "milvus.getCollectionStatistics" \in calls
    /\ collection = "Loaded"
    /\ index /= << >>

\* C19: no step of a search request, text or image, takes an existing
\* collection away or changes its rows
C19_QueryPathNeverDrops ==
    [][collection /= "Absent" =>
         /\ collection' /= "Absent"
         /\ index' = index
         /\ rowIds' = rowIds]_vars

\* a search request was answered from a loaded collection that has rows
C19_Witness ==
    /\ pc = "done"
    /\ resp.status = 200
    /\ "milvus.search" \in calls
    /\ collection = "Loaded"
    /\ index /= << >>

-----------------------------------------------------------------------------
(* Ingestion: scripts/data-generators/products/migrate.js, its earlier      *)
(* version, and the store methods of MultimodalProcessor                    *)

\* what ingestion leaves alone
routeVars == <<pc, req, exactResults, semanticResults, merged, result, calls,
               failed, resp, tmpFiles, client, settled, llm, models,
               images, requests, reset>>

MaxBatch == 2        \* products in the batch populateProducts slices
MaxProcs == 2        \* ingestion processes that run at the same time
MaxRuns == 2         \* runs of the script by one process, one after another

RandomRange == 1000  \* Math.floor(Math.random() * 1000)
ClockStart == 10     \* Date.now() when ingestion starts

Procs == 1..MaxProcs

\* migrate.js checks MongoDB before it ingests a product; the earlier
\* version of the script checks MongoDB and Milvus
Scripts == {"migrate.js", "part_010"}

\* the draws of Math.random() the model follows: the ends of the range
RandomDraws == {0, RandomRange - 1}

\* the number of decimal digits of a draw
Digits(n) == IF n < 10 THEN 1 ELSE IF n < 100 THEN 2 ELSE 3

Pow10(k) == IF k = 1 THEN 10 ELSE IF k = 2 THEN 100 ELSE 1000

\* parseInt(Date.now().toString() + Math.floor(Math.random() * 1000))
GenerateUniqueId(now, draw) == now * Pow10(Digits(draw)) + draw

\* an id Milvus allocates itself; its allocator repeats no id
AutoId(ids) == 0 - (Len(ids) + 1)

\* the id field is declared auto_id: true and the insert supplies an id:
\* the row keeps the id the insert supplies or gets one Milvus allocates
PrimaryKeys(supplied, ids) == {supplied, AutoId(ids)}

\* the products parseProductsCSV returns, with or without an image
Batches ==
    UNION { { [i \in 1..n |-> [id |-> IdOrder[i], image |-> img[i]]] :
                img \in [1..n -> BOOLEAN] } : n \in 1..MaxBatch }

\* a process that does not run
Off == [pc |-> "off"]

\* run(): the locals of a process that starts the script
StartRun(script, batch, run) ==
    [pc |-> "initializeDatabases", script |-> script, batch |-> batch,
     pos |-> 1, run |-> run, existingProduct |-> FALSE,
     existingVector |-> FALSE, imageEmbedding |-> FALSE, delayFrom |-> 0]

\* Product.findOne({ sourceId })
FindOne(cat, id) == \E i \in 1..Len(cat) : cat[i].sourceId = id

\* searchByMetadata({ productId }) that answers: rows whose metadata names
\* the product
QueryByProductId(rows, id) == \E i \in 1..Len(rows) : rows[i].productId = id

\* new Product({ ...data, sourceId: data.id }).save()
NewProduct(cat, product) ==
    [_id |-> Len(cat) + 1, sourceId |-> product.id, name |-> TV,
     category |-> Empty, description |-> Empty]

\* the row storeProductVector inserts: metadata.productId is String(id)
NewRow(id) == [productId |-> id]

\* the loop of populateProducts moves on: the delay of 100 ms starts, and
\* then comes the next product or the end of the batch
Advance(p) ==
    /\ ingest' = [ingest EXCEPT
                    ![p].pos = @ + 1,
                    ![p].delayFrom = clock,
                    ![p].pc = IF ingest[p].pos < Len(ingest[p].batch)
                              THEN "processProduct" ELSE "done"]
    /\ UNCHANGED clock

\* await new Promise((resolve) => setTimeout(resolve, 100)): Date.now()
\* moves on while a process waits between two products
Delay ==
    /\ \E p \in Procs : /\ ingest[p].pc = "processProduct"
                        /\ clock <= ingest[p].delayFrom
    /\ clock' = clock + 1
    /\ UNCHANGED <<catalog, index, collection, rowIds, vectorIndexes,
                   unflushed, ingest, stored>>
    /\ UNCHANGED routeVars

\* initializeDatabases(): init, initializeCollection and testConnection; a
\* failure ends the run
InitializeDatabases(p) ==
    /\ ingest[p].pc = "initializeDatabases"
    /\ \E o \in InitializeCollectionOutcomes(collection, vectorIndexes),
          reachable \in BOOLEAN :
         /\ collection' = o.collection
         /\ vectorIndexes' = o.vectorIndexes
         /\ ingest' = [ingest EXCEPT
                         ![p].pc = IF o.ok /\ reachable
                                   THEN "processProduct" ELSE "failed"]
    /\ UNCHANGED <<catalog, index, rowIds, unflushed, clock, stored>>
    /\ UNCHANGED routeVars

\* the existence check of migrate.js: Product.findOne only
SkipsMigrate(existingProduct, existingVector) == existingProduct

\* the existence check of the earlier version: both stores
SkipsBoth(existingProduct, existingVector) ==
    existingProduct /\ existingVector

\* processProduct up to its existence check; an error of findOne goes to
\* the catch of processProduct, an error of searchByMetadata is logged and
\* leaves existingVector = []
CheckExisting(p) ==
    /\ ingest[p].pc = "processProduct"
    /\ clock > ingest[p].delayFrom
    /\ LET me == ingest[p]
           product == me.batch[me.pos]
       IN  \E findOk \in BOOLEAN, queryOk \in BOOLEAN :
             LET existingProduct == FindOne(catalog, product.id)
                 existingVector ==
                     /\ me.script = "part_010"
                     /\ queryOk
                     /\ QueryByProductId(index, product.id)
                 skips == IF me.script = "migrate.js"
                          THEN SkipsMigrate(existingProduct, existingVector)
                          ELSE SkipsBoth(existingProduct, existingVector)
             IN  IF ~findOk \/ skips
                 THEN Advance(p)
                 ELSE /\ ingest' = [ingest EXCEPT
                                      ![p].pc = "createProduct",
                                      ![p].existingProduct = existingProduct,
                                      ![p].existingVector = existingVector]
                      /\ UNCHANGED clock
    /\ UNCHANGED <<catalog, index, collection, rowIds, vectorIndexes,
                   unflushed, stored>>
    /\ UNCHANGED routeVars

\* processProductImage, which answers an embedding or null and never raises,
\* then createProduct unless the document exists; sourceId is unique, so
\* save() raises when another process has saved the product meanwhile
CreateProduct(p) ==
    /\ ingest[p].pc = "createProduct"
    /\ LET me == ingest[p]
           product == me.batch[me.pos]
       IN  \E embedded \in BOOLEAN, saveOk \in BOOLEAN :
             LET imageEmbedding == product.image /\ embedded
                 saved == saveOk /\ ~FindOne(catalog, product.id)
             IN  IF me.existingProduct \/ saved
                 THEN /\ catalog' = IF me.existingProduct THEN catalog
                                    ELSE Append(catalog,
                                                NewProduct(catalog, product))
                      /\ ingest' = [ingest EXCEPT
                                      ![p].pc = "storeVector",
                                      ![p].imageEmbedding = imageEmbedding]
                      /\ UNCHANGED clock
                 ELSE /\ Advance(p)
                      /\ UNCHANGED catalog
    /\ UNCHANGED <<index, collection, rowIds, vectorIndexes, unflushed,
                   stored>>
    /\ UNCHANGED routeVars

\* a row is appended under the key, and flushed or not
Insert(id, key, flushed, by) ==
    /\ index' = Append(index, NewRow(id))
    /\ rowIds' = Append(rowIds, key)
    /\ unflushed' = IF flushed THEN 0 ELSE unflushed + 1
    /\ stored' = IF by = "none" THEN stored
                 ELSE [by |-> by, row |-> Len(index) + 1,
                       flushed |-> flushed,
                       loaded |-> collection = "Loaded"]

\* migrate.js stores a vector whenever there is an image embedding
StoresVectorMigrate(existingVector, imageEmbedding) == imageEmbedding

\* the earlier version stores one when Milvus has none
StoresVectorBoth(existingVector, imageEmbedding) ==
    ~existingVector /\ imageEmbedding

\* the rest of processProduct: getEmbedding and storeProductVector (insert,
\* then flush) inside a try that logs whatever they raise; without an image
\* embedding nothing is stored (migrate.js reads the undeclared
\* existingVector there and lands in the catch of processProduct)
StoreVector(p) ==
    /\ ingest[p].pc = "storeVector"
    /\ LET me == ingest[p]
           product == me.batch[me.pos]
           stores == IF me.script = "migrate.js"
                     THEN StoresVectorMigrate(me.existingVector,
                                              me.imageEmbedding)
                     ELSE StoresVectorBoth(me.existingVector,
                                           me.imageEmbedding)
       IN  \E embedOk \in BOOLEAN, insertOk \in BOOLEAN, flushOk \in BOOLEAN,
              draw \in RandomDraws :
             \E key \in PrimaryKeys(GenerateUniqueId(clock, draw), rowIds) :
               IF /\ stores
                  /\ embedOk
                  /\ insertOk
                  /\ collection /= "Absent"
                  /\ Len(index) < MaxRows
               THEN Insert(product.id, key, flushOk,
                           IF flushOk THEN "storeProductVector" ELSE "none")
               ELSE UNCHANGED <<index, rowIds, unflushed, stored>>
    /\ Advance(p)
    /\ UNCHANGED <<catalog, collection, vectorIndexes>>
    /\ UNCHANGED routeVars

\* the script is run again by a process whose run has ended
RunAgain(p) ==
    /\ ingest[p].pc \in {"done", "failed"}
    /\ ingest[p].run < MaxRuns
    /\ ingest' = [ingest EXCEPT
                    ![p] = StartRun(@.script, @.batch, @.run + 1)]
    /\ UNCHANGED <<catalog, index, collection, rowIds, vectorIndexes,
                   unflushed, clock, stored>>
    /\ UNCHANGED routeVars

\* MultimodalProcessor.storeProductEmbedding(productId, product): insert
\* with an id made of Date.now() and a draw, then flush; any error is
\* rethrown
StoreProductEmbedding ==
    /\ \A p \in Procs : ingest[p].pc \in {"off", "done", "failed"}
    /\ collection /= "Absent"
    /\ Len(index) < MaxRows
    /\ \E id \in {IdOrder[1]}, flushOk \in BOOLEAN, draw \in RandomDraws :
         \E key \in PrimaryKeys(GenerateUniqueId(clock, draw), rowIds) :
           Insert(id, key, flushOk,
                  IF flushOk THEN "storeProductEmbedding" ELSE "none")
    /\ UNCHANGED <<catalog, collection, vectorIndexes, clock, ingest>>
    /\ UNCHANGED routeVars

\* the row processAndStore inserts: its metadata names an image, no product
ImageRow == "image"

\* MultimodalProcessor.processAndStore(imageInput, originalText, filename):
\* insert without an id, then return
ProcessAndStore ==
    /\ \A p \in Procs : ingest[p].pc \in {"off", "done", "failed"}
    /\ collection /= "Absent"
    /\ Len(index) < MaxRows
    /\ Insert(ImageRow, AutoId(rowIds), FALSE, "processAndStore")
    /\ UNCHANGED <<catalog, collection, vectorIndexes, clock, ingest>>
    /\ UNCHANGED routeVars

\* cleanup(): resetDatabase deletes every Product, then deleteCollection
\* drops the collection if hasCollection finds it; an error ends the reset
\* where it is
Cleanup ==
    /\ \A p \in Procs : ingest[p].pc \in {"off", "done", "failed"}
    /\ catalog /= << >> \/ collection /= "Absent"
    /\ \E deleteOk \in BOOLEAN, dropOk \in BOOLEAN :
         /\ catalog' = IF deleteOk THEN << >> ELSE catalog
         /\ IF deleteOk /\ dropOk
            THEN /\ collection' = "Absent"
                 /\ index' = << >>
                 /\ rowIds' = << >>
                 /\ vectorIndexes' = {}
                 /\ unflushed' = 0
            ELSE UNCHANGED <<collection, index, rowIds, vectorIndexes,
                             unflushed>>
    /\ UNCHANGED <<clock, ingest, stored>>
    /\ UNCHANGED routeVars

\* the state before the script is started by the processes `running`:
\* nothing ingested yet, no collection
InitRunning(running) ==
    /\ catalog = << >>
    /\ index = << >>
    /\ collection = "Absent"
    /\ pc = "idle"
    /\ req = NoReq
    /\ exactResults = Pending
    /\ semanticResults = Pending
    /\ settled = << >>
    /\ merged = << >>
    /\ result = NoResult
    /\ calls = {}
    /\ failed = {}
    /\ resp = NoResp
    /\ tmpFiles = {}
    /\ client = NoClient
    /\ rowIds = << >>
    /\ vectorIndexes = {}
    /\ unflushed = 0
    /\ clock = ClockStart
    /\ stored = NoReport
    /\ llm = NoExpansion
    /\ models = Constructed
    /\ images = NoImages
    /\ requests = NoRequests
    /\ reset = NoReset
    /\ \E script \in Scripts, batch \in Batches :
         ingest = [p \in Procs |-> IF p \in running
                                   THEN StartRun(script, batch, 1) ELSE Off]

\* one process runs the script, again and again; between runs the database
\* may be reset and the store methods of the processor called
InitIngest == InitRunning({1})

NextIngest ==
    \/ \E p \in Procs : InitializeDatabases(p)
    \/ \E p \in Procs : CheckExisting(p)
    \/ \E p \in Procs : CreateProduct(p)
    \/ \E p \in Procs : StoreVector(p)
    \/ Delay
    \/ \E p \in Procs : RunAgain(p)
    \/ StoreProductEmbedding
    \/ ProcessAndStore
    \/ Cleanup

SpecIngest == InitIngest /\ [][NextIngest]_vars

\* the script is started by MaxProcs processes at the same time, once
InitConcurrent == InitRunning(Procs)

NextConcurrent ==
    \/ \E p \in Procs : InitializeDatabases(p)
    \/ \E p \in Procs : CheckExisting(p)
    \/ \E p \in Procs : CreateProduct(p)
    \/ \E p \in Procs : StoreVector(p)
    \/ Delay

SpecConcurrent == InitConcurrent /\ [][NextConcurrent]_vars

-----------------------------------------------------------------------------
(* Properties of ingestion *)

\* the rows of the index whose metadata names the product
RowsOf(id) == {j \in 1..Len(index) : index[j].productId = id}

\* a run of populateProducts has completed
RunCompleted == \E p \in Procs : ingest[p].pc = "done"

\* C14: once a run of populateProducts has completed, every Product of the
\* catalog has exactly one row in the index under its sourceId
C14_OneRecordPerProduct ==
    RunCompleted =>
        \A i \in 1..Len(catalog) :
            Cardinality(RowsOf(catalog[i].sourceId)) = 1

\* process p is in processProduct for a product that had its document when
\* processProduct looked for it and that has a row in the index
Reingests(p) ==
    /\ ingest[p].pc = "storeVector"
    /\ ingest[p].existingProduct
    /\ QueryByProductId(index, ingest[p].batch[ingest[p].pos].id)

\* C15: processProduct on a product that is already ingested adds no
\* catalog document and no row to the index
C15_IngestionIdempotent ==
    [][\A p \in Procs :
         Reingests(p) => /\ catalog' = catalog
                         /\ index' = index]_vars

\* C16: no two rows of the collection have the same primary key, whichever
\* process inserted them and whenever
C16_PrimaryKeysUnique ==
    \A i \in 1..Len(rowIds) :
        \A j \in 1..Len(rowIds) :
            i /= j => rowIds[i] /= rowIds[j]

-----------------------------------------------------------------------------
(* expandTextWithVLLM and generateCompletionSync *)

Providers == {"ollama", "alternative"}

\* provider === "ollama" ? "alternative" : "ollama"
Fallback(provider) == IF provider = "ollama" THEN "alternative" ELSE "ollama"

\* a product text, whose fields are joined with "|"
ProductData == <<"t", "v", "|", "p", "c">>

\* a value that is no string
NotAString == <<"undefined">>

\* what expandTextWithVLLM is called with
ExpandInputs == {Empty, TV, PC, UpperTV, ProductData, NotAString}

\* what an LLM writes back
Contents == {TV, PC}

\* the bodies an LLM endpoint answers with: the one of Ollama, the one of
\* an OpenAI-compatible service, one with no choice, one with a message
\* that has no content, and one with neither field
Replies ==
    { [shape |-> sh, content |-> c] :
        sh \in {"message", "choices"}, c \in Contents }
    \cup { [shape |-> sh, content |-> NotAString] :
             sh \in {"emptyChoices", "emptyMessage", "neither"} }

\* no reply has come, nothing has been returned
NoReply == [shape |-> "none", content |-> NotAString]

NoOut == [raised |-> FALSE, value |-> NotAString]

\* the catch of a function that rethrows what it caught
Rethrown(text) == [raised |-> TRUE, value |-> NotAString]

\* catch (error) { console.error(...); return text; }
Caught(text) == [raised |-> FALSE, value |-> text]

Returned(value) == [raised |-> FALSE, value |-> value]

\* the methods of the processor that call generateCompletionSync
LLMCalls == {"expandTextWithVLLM", "generateCaption",
             "generateDetailedImageAnalysis"}

\* the path of an image that exists
ImagePath == <<"/", "t", "v">>

\* the provider entries config.llm can have: DEFAULT_CONFIG and
\* config/llm.js have ollama only, the configuration of the earlier
\* migration script has both
Configurations == {{"ollama"}, Providers}

\* what the outer catch of the method does with an error: expandTextWithVLLM
\* returns its input, the others rethrow
OnError(fn, text) ==
    IF fn = "expandTextWithVLLM" THEN Caught(text) ELSE Rethrown(text)

\* the provider whose reply format the method reads: the configured one,
\* but always choices[0] in generateDetailedImageAnalysis
ReadAs(fn, provider) ==
    IF fn = "generateDetailedImageAnalysis" THEN "alternative" ELSE provider

\* output.message.content for Ollama, output.choices[0].message.content
\* otherwise: what the read gives, or that it raises a TypeError
Decode(provider, reply) ==
    IF provider = "ollama"
    THEN CASE reply.shape \in {"message", "emptyMessage"} ->
                [raises |-> FALSE, content |-> reply.content]
           [] OTHER -> [raises |-> TRUE, content |-> NotAString]
    ELSE CASE reply.shape = "choices" ->
                [raises |-> FALSE, content |-> reply.content]
           [] OTHER -> [raises |-> TRUE, content |-> NotAString]

llmUnchanged ==
    UNCHANGED <<catalog, index, collection, pc, req, exactResults,
                semanticResults, merged, result, calls, failed, resp,
                tmpFiles, client, settled, rowIds, vectorIndexes,
                unflushed, clock, ingest, stored, models, images,
                requests, reset>>

\* a method of the processor has been entered with `text` and is about to
\* call generateCompletionSync
Entered(fn, text) ==
    [defaultProvider |-> llm.defaultProvider, configured |-> llm.configured,
     at |-> "generateCompletionSync", fn |-> fn, text |-> text,
     retried |-> FALSE, errors |-> {}, requests |-> 0, reply |-> NoReply,
     answeredBy |-> "none", readAs |-> "none", out |-> NoOut]

\* testLLMConnection(): a GET to the configured provider; when it fails, or
\* the provider has no entry to read baseUrl from, the other provider is
\* selected and false returned
AfterProbe(answers) ==
    [llm EXCEPT
       !.defaultProvider =
           IF answers /\ llm.defaultProvider \in llm.configured
           THEN @ ELSE Fallback(@)]

TestLLMConnection ==
    /\ llm.at \in {"idle", "returned"}
    /\ \E answers \in BOOLEAN : llm' = AfterProbe(answers)
    /\ llmUnchanged

\* expandTextWithVLLM(text) up to the call of generateCompletionSync;
\* text.includes raises on a value that is no string, inside the try
ExpandTextWithVLLM(text) ==
    /\ llm.at \in {"idle", "returned"}
    /\ llm' = IF text = NotAString
              THEN [Entered("expandTextWithVLLM", text) EXCEPT
                      !.at = "returned",
                      !.errors = {"text.includes"},
                      !.out = Caught(text)]
              ELSE Entered("expandTextWithVLLM", text)
    /\ llmUnchanged

\* generateCaption(id, imagePath) of the processor, for an image that is
\* there, up to the call of generateCompletionSync
GenerateCaptionCall ==
    /\ llm.at \in {"idle", "returned"}
    /\ llm' = Entered("generateCaption", ImagePath)
    /\ llmUnchanged

\* generateDetailedImageAnalysis(imageInput) up to the call of
\* generateCompletionSync
GenerateDetailedImageAnalysis ==
    /\ llm.at \in {"idle", "returned"}
    /\ llm' = Entered("generateDetailedImageAnalysis", ImagePath)
    /\ llmUnchanged

\* a generateCompletionSync that retries whenever a request fails
MayRetryAlways(retried) == TRUE

\* if (!prompts._retried)
MayRetry(retried) == ~retried

\* generateCompletionSync(prompts): one attempt. getLLMServiceUrl and
\* getModelName raise when the provider has no entry; otherwise the request
\* goes out and is answered or fails. The first failure selects the other
\* provider and tries again, the second is thrown to the caller
GenerateCompletionSync ==
    /\ llm.at = "generateCompletionSync"
    /\ LET provider == llm.defaultProvider
           sends == provider \in llm.configured
           sent == [llm EXCEPT !.requests = IF sends THEN @ + 1 ELSE @]
           attempt == IF llm.retried THEN "attempt2" ELSE "attempt1"
       IN  \/ /\ sends
              /\ \E reply \in Replies :
                   llm' = [sent EXCEPT !.at = "decode", !.reply = reply,
                                       !.answeredBy = provider]
           \/ /\ MayRetry(llm.retried)
              /\ llm' = [sent EXCEPT
                           !.defaultProvider = Fallback(@),
                           !.retried = TRUE,
                           !.errors = @ \cup {attempt}]
           \/ /\ ~MayRetry(llm.retried)
              /\ llm' = [sent EXCEPT
                           !.at = "returned",
                           !.errors = @ \cup {attempt},
                           !.out = OnError(llm.fn, llm.text)]
    /\ llmUnchanged

\* the rest of the method: the content is read off the reply and returned.
\* generateDetailedImageAnalysis reads inside a try of its own and returns
\* undefined when the read raises
ReadContent ==
    /\ llm.at = "decode"
    /\ LET as == ReadAs(llm.fn, llm.defaultProvider)
           read == Decode(as, llm.reply)
       IN  llm' = [llm EXCEPT
                     !.at = "returned",
                     !.readAs = as,
                     !.errors = IF read.raises THEN @ \cup {"TypeError"}
                                ELSE @,
                     !.out = IF ~read.raises THEN Returned(read.content)
                             ELSE IF llm.fn = "generateDetailedImageAnalysis"
                             THEN Returned(NotAString)
                             ELSE OnError(llm.fn, llm.text)]
    /\ llmUnchanged

InitExpand ==
    /\ catalog = << >>
    /\ index = << >>
    /\ collection = "Absent"
    /\ pc = "idle"
    /\ req = NoReq
    /\ exactResults = Pending
    /\ semanticResults = Pending
    /\ settled = << >>
    /\ merged = << >>
    /\ result = NoResult
    /\ calls = {}
    /\ failed = {}
    /\ resp = NoResp
    /\ tmpFiles = {}
    /\ client = NoClient
    /\ rowIds = << >>
    /\ vectorIndexes = {}
    /\ unflushed = 0
    /\ clock = 0
    /\ ingest = NoIngest
    /\ stored = NoReport
    /\ models = Constructed
    /\ images = NoImages
    /\ requests = NoRequests
    /\ reset = NoReset
    /\ \E configured \in Configurations :
         \E provider \in configured :
           llm = [defaultProvider |-> provider, configured |-> configured,
                  at |-> "idle"]

NextExpand ==
    \/ \E text \in ExpandInputs : ExpandTextWithVLLM(text)
    \/ GenerateCaptionCall
    \/ GenerateDetailedImageAnalysis
    \/ TestLLMConnection
    \/ GenerateCompletionSync
    \/ ReadContent

SpecExpand == InitExpand /\ [][NextExpand]_vars

\* the call of expandTextWithVLLM has ended after a failure: of both
\* attempts, of reading the reply, or of reading the input
ExpansionFailed ==
    /\ llm.at = "returned"
    /\ llm.fn = "expandTextWithVLLM"
    /\ llm.errors \cap {"attempt2", "TypeError", "text.includes"} /= {}

\* C20: expandTextWithVLLM never raises, and when the LLM request fails on
\* both providers or the reply cannot be read it returns its input as it is
C20_ExpansionNeverRaises ==
    (/\ llm.at = "returned"
     /\ llm.fn = "expandTextWithVLLM")
        => /\ ~llm.out.raised
           /\ ExpansionFailed => llm.out.value = llm.text

\* both providers failed and the input came back
C20_Witness ==
    /\ llm.at = "returned"
    /\ llm.fn = "expandTextWithVLLM"
    /\ {"attempt1", "attempt2"} \subseteq llm.errors
    /\ llm.requests = 2
    /\ llm.text = TV
    /\ llm.out = [raised |-> FALSE, value |-> TV]

\* the processor is inside, or has left, a call of the method fn
InCall(fn) ==
    /\ llm.at /= "idle"
    /\ llm.fn = fn

\* C21: a call of generateCaption sends one request to the LLM endpoint and
\* never a second one
C21_CaptionSingleRequest ==
    InCall("generateCaption") => llm.requests <= 1

\* C27: a call of generateCompletionSync makes at most two requests, the
\* second one only after the first failed, and a second failure ends the
\* call with the error
C27_AtMostTwoRequests ==
    llm.at /= "idle" =>
        /\ llm.requests <= 2
        /\ llm.requests = 2 => "attempt1" \in llm.errors
        /\ "attempt2" \in llm.errors =>
             /\ "attempt1" \in llm.errors
             /\ llm.at = "returned"
             /\ llm.out = OnError(llm.fn, llm.text)

\* both requests of a call were sent and failed, and the caller got the
\* error
C27_Witness ==
    /\ InCall("generateCaption")
    /\ llm.at = "returned"
    /\ llm.requests = 2
    /\ "attempt2" \in llm.errors
    /\ llm.out.raised

\* C28: the provider selected in config.llm.defaultProvider has an entry in
\* config.llm
C28_ProviderConfigured == llm.defaultProvider \in llm.configured

\* C29: a reply that has been read was read in the format of the provider
\* that sent it
C29_ReadAsProducer ==
    (/\ llm.at = "returned"
     /\ llm.readAs /= "none")
        => llm.readAs = llm.answeredBy

\* sourceId identifies a Product: no two documents of the catalog share one
CatalogIdsUnique ==
    \A i \in 1..Len(catalog) :
        \A j \in 1..Len(catalog) :
            catalog[i].sourceId = catalog[j].sourceId => i = j

\* ragSearch has ended, its semantic branch came back with no hit and no
\* dependency raised
ZeroSemanticHits ==
    /\ pc = "ragDone"
    /\ req.kind = "rag"
    /\ exactResults.st = "done"
    /\ semanticResults = Done(<< >>)
    /\ failed = {}

Resolving(hits) == SelectSeq(hits, LAMBDA h : InCatalog(h.productId))

\* ragSearch has returned a list and no dependency raised
RagAnswered ==
    /\ pc = "ragDone"
    /\ req.kind = "rag"
    /\ exactResults.st = "done"
    /\ semanticResults.st = "done"
    /\ failed = {}

\* C26: semantic hits whose productId has no document in the catalog raise
\* nothing and leave the result as it is without them: the other semantic
\* and exact products keep their places
C26_StaleHitDropped ==
    RagAnswered =>
        /\ result.st = "ok"
        /\ \A i \in 1..Len(result.items) : InCatalog(result.items[i].sourceId)
        /\ result.items =
             Slice(CombinedProductMap(catalog, exactResults.val,
                                      Resolving(semanticResults.val)),
                   req.limit)

\* a stale hit came back ahead of a hit that resolves, and the result has
\* the resolved product
C26_Witness ==
    /\ RagAnswered
    /\ Len(semanticResults.val) >= 2
    /\ ~InCatalog(semanticResults.val[1].productId)
    /\ InCatalog(semanticResults.val[2].productId)
    /\ result.items /= << >>
    /\ result.items[1]._searchMethod = "semantic"

-----------------------------------------------------------------------------
(* init() and the embedding methods of MultimodalProcessor *)

modelsUnchanged ==
    UNCHANGED <<catalog, index, collection, pc, req, exactResults,
                semanticResults, merged, result, calls, failed, resp,
                tmpFiles, client, settled, rowIds, vectorIndexes,
                unflushed, clock, ingest, stored, images, requests,
                reset>>

\* init() is called
CallInit ==
    /\ models.init = "constructed"
    /\ models' = [models EXCEPT !.init = "init"]
    /\ UNCHANGED llm
    /\ modelsUnchanged

\* const { pipeline } = await import("@xenova/transformers")
ImportTransformers ==
    /\ models.init = "init"
    /\ \E ok \in BOOLEAN :
         models' = [models EXCEPT !.init = IF ok THEN "imported" ELSE "failed"]
    /\ UNCHANGED llm
    /\ modelsUnchanged

\* this.clipModel = await this.pipeline(...)
LoadClipModel ==
    /\ models.init = "imported"
    /\ \E ok \in BOOLEAN :
         models' = [models EXCEPT
                      !.init = IF ok THEN "clipModel" ELSE "failed",
                      !.clipModel = ok]
    /\ UNCHANGED llm
    /\ modelsUnchanged

\* this.embeddingModel = await this.pipeline(...)
LoadEmbeddingModel ==
    /\ models.init = "clipModel"
    /\ \E ok \in BOOLEAN :
         models' = [models EXCEPT
                      !.init = IF ok THEN "embeddingModel" ELSE "failed",
                      !.embeddingModel = ok]
    /\ UNCHANGED llm
    /\ modelsUnchanged

\* await this.testLLMConnection(), which answers true or false and never
\* raises: init() has completed
VerifyLLMConnection ==
    /\ models.init = "embeddingModel"
    /\ \E answers \in BOOLEAN : llm' = AfterProbe(answers)
    /\ models' = [models EXCEPT !.init = "done"]
    /\ modelsUnchanged

\* the texts getEmbedding is called with
EmbeddingInputs == {TV, Empty, PaddedTV, NotAString}

\* what an embedding method answered, and where init() was when it was
\* called
Embedded(fn, error) ==
    [models EXCEPT !.last = [fn |-> fn, during |-> models.init,
                             error |-> error]]

\* if (!this.embeddingModel) throw ..., if (!this.clipModel) throw ...
ModelReady(loaded) == loaded

\* getEmbedding(text, false)
GetEmbedding(text) ==
    /\ \E modelOk \in BOOLEAN :
         models' =
           Embedded("getEmbedding",
                    CASE ~ModelReady(models.embeddingModel) -> "not initialized"
                      [] text = NotAString -> "not a string"
                      [] Trim(text) = Empty -> "empty"
                      [] ~modelOk -> "model"
                      [] OTHER -> "none")
    /\ UNCHANGED llm
    /\ modelsUnchanged

\* getImageEmbedding(imagePath) and getImageEmbeddingFromBuffer(imageBuffer)
GetImageEmbedding(fn) ==
    /\ \E convertOk \in BOOLEAN, modelOk \in BOOLEAN :
         models' =
           Embedded(fn,
                    CASE ~ModelReady(models.clipModel) -> "not initialized"
                      [] ~convertOk -> "image"
                      [] ~modelOk -> "model"
                      [] OTHER -> "none")
    /\ UNCHANGED llm
    /\ modelsUnchanged

InitModels ==
    /\ catalog = << >>
    /\ index = << >>
    /\ collection = "Absent"
    /\ pc = "idle"
    /\ req = NoReq
    /\ exactResults = Pending
    /\ semanticResults = Pending
    /\ settled = << >>
    /\ merged = << >>
    /\ result = NoResult
    /\ calls = {}
    /\ failed = {}
    /\ resp = NoResp
    /\ tmpFiles = {}
    /\ client = NoClient
    /\ rowIds = << >>
    /\ vectorIndexes = {}
    /\ unflushed = 0
    /\ clock = 0
    /\ ingest = NoIngest
    /\ stored = NoReport
    /\ models = Constructed
    /\ images = NoImages
    /\ requests = NoRequests
    /\ reset = NoReset
    /\ \E configured \in Configurations :
         llm = [defaultProvider |-> "ollama", configured |-> configured,
                at |-> "idle"]

NextModels ==
    \/ CallInit
    \/ ImportTransformers
    \/ LoadClipModel
    \/ LoadEmbeddingModel
    \/ VerifyLLMConnection
    \/ \E text \in EmbeddingInputs : GetEmbedding(text)
    \/ \E fn \in {"getImageEmbedding", "getImageEmbeddingFromBuffer"} :
         GetImageEmbedding(fn)

SpecModels == InitModels /\ [][NextModels]_vars

\* C22: an embedding method called before init() has completed fails with
\* the error that the model is not initialized
C22_NotReadyBeforeInit ==
    (/\ models.last.fn /= "none"
     /\ models.last.during /= "done")
        => models.last.error = "not initialized"

-----------------------------------------------------------------------------
(* downloadImage *)

MaxDownloads == 2    \* axios.get requests downloadImage makes for one id

\* the source identifiers and the image URLs downloadImage is called with
DownloadIds == {IdOrder[1], IdOrder[2]}
ImageUrls == {"http://a", "http://b"}

NoPath == "none"

\* a downloadImage that names the file after the URL
LocalImagePathOfUrl(id, imageUrl) == imageUrl

\* path.join(this.storageConfig.baseImagePath, `${id}.jpg`)
LocalImagePath(id, imageUrl) == id

\* what a call of downloadImage leaves behind
Downloaded(id, imageUrl, out, requested, written) ==
    [dir |-> TRUE,
     files |-> images.files \cup written,
     downloads |-> [images.downloads EXCEPT
                      ![id] = IF requested THEN @ + 1 ELSE @],
     paths |-> [images.paths EXCEPT
                  ![id] = IF @ = NoPath /\ out /= "raised" THEN out ELSE @],
     last |-> [id |-> id, imageUrl |-> imageUrl, out |-> out,
               requested |-> requested]]

\* downloadImage(id, imageUrl): mkdir, then the file if fs.access finds it,
\* else axios.get and fs.writeFile; a write that fails may leave a file
DownloadImage(id, imageUrl) ==
    /\ LET localImagePath == LocalImagePath(id, imageUrl)
       IN  \/ /\ ~images.dir
              /\ images' = [images EXCEPT
                              !.last = [id |-> id, imageUrl |-> imageUrl,
                                        out |-> "raised",
                                        requested |-> FALSE]]
           \/ /\ localImagePath \in images.files
              /\ images' = Downloaded(id, imageUrl, localImagePath, FALSE, {})
           \/ /\ localImagePath \notin images.files
              /\ images.downloads[id] < MaxDownloads
              /\ \E getOk \in BOOLEAN, writeOk \in BOOLEAN,
                    partial \in BOOLEAN :
                   images' =
                     IF getOk /\ writeOk
                     THEN Downloaded(id, imageUrl, localImagePath, TRUE,
                                     {localImagePath})
                     ELSE Downloaded(id, imageUrl, "raised", TRUE,
                                     IF getOk /\ partial
                                     THEN {localImagePath} ELSE {})
    /\ UNCHANGED <<catalog, index, collection, pc, req, exactResults,
                   semanticResults, merged, result, calls, failed, resp,
                   tmpFiles, client, settled, rowIds, vectorIndexes,
                   unflushed, clock, ingest, stored, llm, models,
                   requests, reset>>

InitDownload ==
    /\ catalog = << >>
    /\ index = << >>
    /\ collection = "Absent"
    /\ pc = "idle"
    /\ req = NoReq
    /\ exactResults = Pending
    /\ semanticResults = Pending
    /\ settled = << >>
    /\ merged = << >>
    /\ result = NoResult
    /\ calls = {}
    /\ failed = {}
    /\ resp = NoResp
    /\ tmpFiles = {}
    /\ client = NoClient
    /\ rowIds = << >>
    /\ vectorIndexes = {}
    /\ unflushed = 0
    /\ clock = 0
    /\ ingest = NoIngest
    /\ stored = NoReport
    /\ llm = NoExpansion
    /\ models = Constructed
    /\ requests = NoRequests
    /\ reset = NoReset
    /\ \E dir \in BOOLEAN :
         images = [dir |-> dir, files |-> {},
                   downloads |-> [id \in DownloadIds |-> 0],
                   paths |-> [id \in DownloadIds |-> NoPath],
                   last |-> [id |-> "none", imageUrl |-> "none",
                             out |-> "none", requested |-> FALSE]]

NextDownload ==
    \E id \in DownloadIds, imageUrl \in ImageUrls : DownloadImage(id, imageUrl)

SpecDownload == InitDownload /\ [][NextDownload]_vars

\* C23: once downloadImage has succeeded for an id, a later call with that
\* id makes no request and returns the path the first success returned
C23_DownloadIdempotent ==
    [][\A id \in DownloadIds :
         (/\ images.paths[id] /= NoPath
          /\ images'.last.id = id)
            => /\ ~images'.last.requested
               /\ images'.downloads = images.downloads
               /\ images'.last.out = images.paths[id]]_vars

\* a second call for an id, with another URL, came back without a request
C23_Witness ==
    /\ images.last.id = IdOrder[1]
    /\ images.last.imageUrl = "http://b"
    /\ images.downloads[IdOrder[1]] = 1
    /\ images.last.out = images.paths[IdOrder[1]]
    /\ ~images.last.requested


-----------------------------------------------------------------------------
\* Search requests served at the same time.  Every request runs the route of
\* its kind on a processor of its own; the Milvus collection and the
\* directory /tmp are the same for all of them.  No dependency fails on its
\* own account here: Milvus, the LLM and the file system answer every call
\* they can answer.

MaxRequests == 2

Requesters == 1..MaxRequests

RequestKinds == {"search", "image"}

\* Date.now() when processImageFile runs: requests can arrive in one
\* millisecond
Timestamps == {0, 1}

\* Math.random().toString(36).substring(2, 10)
RandomNames == {"a", "b"}

\* `/tmp/search_${timestamp}_${random}.jpg`
TempFilePath(timestamp, random) == <<"search", timestamp, random>>

\* no request has arrived at this requester
Waiting ==
    [pc |-> "waiting", kind |-> "search", tempFilePath |-> NoPath,
     defaultProvider |-> "ollama", collectionExists |-> FALSE,
     caption |-> 0, status |-> 0, unlinked |-> FALSE]

\* the files of /tmp that carry the given path
FilesAt(path) == {f \in tmpFiles : f.path = path}

sharedUnchanged ==
    UNCHANGED <<catalog, index, pc, req, exactResults, semanticResults,
                merged, result, calls, failed, resp, client, settled, rowIds,
                unflushed, clock, ingest, stored, llm, models, images,
                reset>>

\* the step of requester r to the given record
Step(r, next) == requests' = [requests EXCEPT ![r] = next]

\* the catch of the route answers with an AppError
Failing(r) == [requests[r] EXCEPT !.pc = "done", !.status = 500]

\* a request arrives; an image search writes its image to the temporary
\* file first (writeFileSync replaces a file that has the path)
Arrive(r) ==
    /\ requests[r].pc = "waiting"
    /\ \E kind \in RequestKinds, timestamp \in Timestamps,
          random \in RandomNames :
         LET path == IF kind = "image"
                     THEN TempFilePath(timestamp, random)
                     ELSE NoPath
         IN  /\ tmpFiles' = IF kind = "image"
                            THEN (tmpFiles \ FilesAt(path))
                                   \cup {[path |-> path, image |-> r]}
                            ELSE tmpFiles
             /\ Step(r, [requests[r] EXCEPT !.pc = "init", !.kind = kind,
                                            !.tempFilePath = path])
    /\ UNCHANGED <<collection, vectorIndexes>>
    /\ sharedUnchanged

\* new MultimodalProcessor() and init(): the probe of the LLM selects the
\* provider of this processor
InitProcessor(r) ==
    /\ requests[r].pc = "init"
    /\ \E answers \in BOOLEAN :
         Step(r, [requests[r] EXCEPT
                    !.pc = "listCollections",
                    !.defaultProvider = IF answers THEN "ollama"
                                        ELSE Fallback("ollama")])
    /\ UNCHANGED <<collection, vectorIndexes, tmpFiles>>
    /\ sharedUnchanged

\* initializeCollection: listCollections and the test of collectionExists
ListCollections(r) ==
    /\ requests[r].pc = "listCollections"
    /\ LET exists == collection /= "Absent"
       IN  Step(r, [requests[r] EXCEPT
                      !.collectionExists = exists,
                      !.pc = IF exists THEN "loadCollection"
                             ELSE "createCollection"])
    /\ UNCHANGED <<collection, vectorIndexes, tmpFiles>>
    /\ sharedUnchanged

\* initializeCollection: createCollection; what Milvus answers when the
\* collection has been created since listCollections is either of the two
CreateCollection(r) ==
    /\ requests[r].pc = "createCollection"
    /\ IF collection = "Absent"
       THEN /\ collection' = "Created"
            /\ vectorIndexes' = {}
            /\ Step(r, [requests[r] EXCEPT !.pc = "createIndex"])
       ELSE /\ UNCHANGED <<collection, vectorIndexes>>
            /\ \E accepted \in BOOLEAN :
                 Step(r, IF accepted
                         THEN [requests[r] EXCEPT !.pc = "createIndex"]
                         ELSE Failing(r))
    /\ UNCHANGED tmpFiles
    /\ sharedUnchanged

\* initializeCollection: Promise.all of the two createIndex calls
CreateIndex(r) ==
    /\ requests[r].pc = "createIndex"
    /\ vectorIndexes' = VectorFields
    /\ Step(r, [requests[r] EXCEPT !.pc = "loadCollection"])
    /\ UNCHANGED <<collection, tmpFiles>>
    /\ sharedUnchanged

\* initializeCollection: loadCollection, which Milvus refuses while a vector
\* index is missing; the error is thrown on to the route
LoadCollection(r) ==
    /\ requests[r].pc = "loadCollection"
    /\ IF Loadable(vectorIndexes)
       THEN /\ collection' = "Loaded"
            /\ Step(r, [requests[r] EXCEPT
                          !.pc = IF requests[r].kind = "image"
                                 THEN "generateCaption" ELSE "ragSearch"])
       ELSE /\ UNCHANGED collection
            /\ Step(r, Failing(r))
    /\ UNCHANGED <<vectorIndexes, tmpFiles>>
    /\ sharedUnchanged

\* generateCaption(id, tempFilePath) reads the file that is at the path now
GenerateCaptionOf(r) ==
    /\ requests[r].pc = "generateCaption"
    /\ IF FilesAt(requests[r].tempFilePath) = {}
       THEN Step(r, Failing(r))
       ELSE \E f \in FilesAt(requests[r].tempFilePath) :
              Step(r, [requests[r] EXCEPT !.pc = "ragSearch",
                                          !.caption = f.image])
    /\ UNCHANGED <<collection, vectorIndexes, tmpFiles>>
    /\ sharedUnchanged

\* ragSearch and the answer; an image search removes its temporary file
\* after it, and an error of unlinkSync is logged
RagSearchOf(r) ==
    /\ requests[r].pc = "ragSearch"
    /\ LET mine == IF requests[r].kind = "image"
                   THEN FilesAt(requests[r].tempFilePath)
                   ELSE {}
       IN  /\ tmpFiles' = tmpFiles \ mine
           /\ Step(r, [requests[r] EXCEPT !.pc = "done", !.status = 200,
                                          !.unlinked = mine /= {}])
    /\ UNCHANGED <<collection, vectorIndexes>>
    /\ sharedUnchanged

\* the collection is missing, or it is complete and loaded
InitShared ==
    /\ catalog = << >>
    /\ index = << >>
    /\ \E exists \in BOOLEAN :
         /\ collection = IF exists THEN "Loaded" ELSE "Absent"
         /\ vectorIndexes = IF exists THEN VectorFields ELSE {}
    /\ pc = "idle"
    /\ req = NoReq
    /\ exactResults = Pending
    /\ semanticResults = Pending
    /\ settled = << >>
    /\ merged = << >>
    /\ result = NoResult
    /\ calls = {}
    /\ failed = {}
    /\ resp = NoResp
    /\ tmpFiles = {}
    /\ client = NoClient
    /\ rowIds = << >>
    /\ unflushed = 0
    /\ clock = ClockStart
    /\ ingest = NoIngest
    /\ stored = NoReport
    /\ llm = NoExpansion
    /\ models = Constructed
    /\ images = NoImages
    /\ requests = [r \in Requesters |-> Waiting]
    /\ reset = NoReset

NextShared ==
    \E r \in Requesters :
        \/ Arrive(r)
        \/ InitProcessor(r)
        \/ ListCollections(r)
        \/ CreateCollection(r)
        \/ CreateIndex(r)
        \/ LoadCollection(r)
        \/ GenerateCaptionOf(r)
        \/ RagSearchOf(r)

SpecShared == InitShared /\ [][NextShared]_vars

\* a request that has been answered
Answered(r) == requests[r].pc = "done"

\* a request served alone is answered with 200: alone it finds the
\* collection missing or loaded, and never half built
AsServedAlone(r) == requests[r].status = 200

\* C24: a request served together with other requests is answered as it is
\* when it is served alone
C24_RequestsIndependent ==
    \A r \in Requesters : Answered(r) => AsServedAlone(r)

\* an image search that was answered with 200 took the caption from its own
\* image and removed its own temporary file
OwnTemporaryFile ==
    \A r \in Requesters :
        /\ Answered(r)
        /\ requests[r].status = 200
        /\ requests[r].kind = "image"
        => /\ requests[r].caption = r
           /\ requests[r].unlinked

-----------------------------------------------------------------------------
\* The reset-and-migrate script: cleanup(), a pause of one second, run().
\* It is started on the database that a migration has left.

\* the script has been started
Started == [pc |-> "cleanup", cleanupCompleted |-> FALSE]

scriptUnchanged ==
    UNCHANGED <<pc, req, exactResults, semanticResults, merged, result, calls,
                failed, resp, tmpFiles, client, settled, llm, models, images,
                requests>>

\* the migration that filled the database has ended
MigrationEnded == \A p \in Procs : ingest[p].pc \in {"off", "done", "failed"}

\* the reset-and-migrate script is started
StartScript ==
    /\ reset.pc = "none"
    /\ MigrationEnded
    /\ reset' = Started
    /\ UNCHANGED <<catalog, index, collection, rowIds, vectorIndexes,
                   unflushed, clock, ingest, stored>>
    /\ scriptUnchanged

\* cleanup(): mongoose.connect, init, initializeCollection, testConnection,
\* then resetDatabase: deleteMany, deleteCollection and the two reads that
\* verify.  The first error ends the reset where it is; the catch of cleanup
\* logs it and cleanup returns
ScriptCleanup ==
    /\ reset.pc = "cleanup"
    /\ \E connectOk \in BOOLEAN, reachable \in BOOLEAN, deleteOk \in BOOLEAN,
          dropOk \in BOOLEAN, verifyOk \in BOOLEAN,
          o \in InitializeCollectionOutcomes(collection, vectorIndexes) :
         LET initialized == connectOk /\ o.ok /\ reachable
             deleted == initialized /\ deleteOk
             dropped == deleted /\ dropOk
         IN  /\ catalog' = IF deleted THEN << >> ELSE catalog
             /\ IF dropped
                THEN /\ collection' = "Absent"
                     /\ index' = << >>
                     /\ rowIds' = << >>
                     /\ vectorIndexes' = {}
                     /\ unflushed' = 0
                ELSE /\ collection' = IF connectOk THEN o.collection
                                      ELSE collection
                     /\ vectorIndexes' = IF connectOk THEN o.vectorIndexes
                                         ELSE vectorIndexes
                     /\ UNCHANGED <<index, rowIds, unflushed>>
             /\ reset' = [pc |-> "pause",
                          cleanupCompleted |-> dropped /\ verifyOk]
    /\ UNCHANGED <<clock, ingest, stored>>
    /\ scriptUnchanged

\* await new Promise(resolve => setTimeout(resolve, 1000))
ScriptPause ==
    /\ reset.pc = "pause"
    /\ reset' = [reset EXCEPT !.pc = "run"]
    /\ clock' = clock + 1
    /\ UNCHANGED <<catalog, index, collection, rowIds, vectorIndexes,
                   unflushed, ingest, stored>>
    /\ scriptUnchanged

\* await run(filePath): the migration starts
ScriptRun ==
    /\ reset.pc = "run"
    /\ reset' = [reset EXCEPT !.pc = "migrating"]
    /\ ingest' = [ingest EXCEPT
                    ![1] = StartRun(@.script, @.batch, @.run + 1)]
    /\ UNCHANGED <<catalog, index, collection, rowIds, vectorIndexes,
                   unflushed, clock, stored>>
    /\ scriptUnchanged

\* run has returned, or it has thrown and the script exits with 1
ScriptEnd ==
    /\ reset.pc = "migrating"
    /\ ingest[1].pc \in {"done", "failed"}
    /\ reset' = [reset EXCEPT !.pc = IF ingest[1].pc = "done"
                                     THEN "completed" ELSE "exit1"]
    /\ UNCHANGED <<catalog, index, collection, rowIds, vectorIndexes,
                   unflushed, clock, ingest, stored>>
    /\ scriptUnchanged

InitReset == InitRunning({1})

NextReset ==
    \/ InitializeDatabases(1)
    \/ CheckExisting(1)
    \/ CreateProduct(1)
    \/ StoreVector(1)
    \/ Delay
    \/ StartScript
    \/ ScriptCleanup
    \/ ScriptPause
    \/ ScriptRun
    \/ ScriptEnd

SpecReset == InitReset /\ [][NextReset]_vars

\* the script is about to call run(filePath)
MigrationStarts == reset.pc = "run"

\* the reset has done its work: no Product, no vector collection
DatabaseReset == catalog = << >> /\ collection = "Absent"

\* C30: the migration of the reset-and-migrate script starts only on a
\* database that the reset has emptied: no Product is left in the catalog
\* and the vector collection is dropped
C30_MigrationAfterReset == MigrationStarts => DatabaseReset

=============================================================================
